---- MODULE Spec2Model ----
(***************************************************************************)
(* MojAlbum photo downloader (src/mojalbum_downloader.py).                 *)
(*                                                                         *)
(* A string is a sequence of one-character strings, so that the regular    *)
(* expressions and the substring tests of the program are computed on the  *)
(* text and not assumed.  A parsed page ("soup") is the sequence, in       *)
(* document order, of its <img src=...> elements; an element is            *)
(*   [src |-> string, anc |-> ids of its ancestors],                       *)
(* anc[1] being the id attribute of its parent, anc[2] of its grandparent  *)
(* and so on up to the document object, "" where there is no id.           *)
(***************************************************************************)
EXTENDS Integers, Sequences, FiniteSets, TLC

VARIABLES
    album,                \* server: the album's page bodies (names of PageBody)
    tail,                 \* server: what it answers beyond the last page
    files,                \* destination: file name (photo id) -> times written
    files0,               \* destination before the first run
    pc,                   \* position in download_all / get_photo_ids
    run,                  \* 1 or 2: which invocation of download_all
    page,                 \* get_photo_ids: page
    photo_ids,            \* get_photo_ids: photo_ids
    url_pattern,          \* get_photo_ids: url_pattern
    i,                    \* download_all: number of descriptors processed
    successful_downloads, \* download_all: successful_downloads
    failed_downloads,     \* download_all: failed_downloads
    direct_url,           \* download_all: direct_url of the last fetch
    pages_fetched,        \* history: page numbers passed to session.get
    stop,                 \* history: why the crawl loop ended
    outcomes,             \* history: outcome of each processed descriptor
    net_failures,         \* history: photo fetches that failed, both runs
    first,                \* history: summary of the first run
    given,                \* pure-function runs: what the page was built from
    soup,                 \* pure-function runs: the page under test
    out                   \* pure-function runs: the results

vars == <<album, tail, files, files0, pc, run, page, photo_ids, url_pattern,
          i, successful_downloads, failed_downloads, direct_url,
          pages_fetched, stop, outcomes, net_failures, first, given, soup, out>>

(***************************************************************************)
(* Text                                                                    *)
(***************************************************************************)
Digits == {"0", "1", "2", "3", "4", "5", "6", "7", "8", "9"}

IsDigits(s) == \A k \in 1..Len(s) : s[k] \in Digits

NoSlash(s) == \A k \in 1..Len(s) : s[k] # "/"

\* s[a..b], empty when b < a
Slice(s, a, b) == IF b < a THEN <<>> ELSE SubSeq(s, a, b)

\* lit occurs in s starting at position p
At(s, p, lit) ==
    /\ p >= 1
    /\ p + Len(lit) - 1 <= Len(s)
    /\ \A k \in 1..Len(lit) : s[p + k - 1] = lit[k]

\* Python: lit in s
Contains(s, lit) == \E p \in 1..(Len(s) + 1) : At(s, p, lit)

EndsWith(s, lit) == At(s, Len(s) - Len(lit) + 1, lit)

SetMax(S) == CHOOSE x \in S : \A y \in S : y <= x

SetMin(S) == CHOOSE x \in S : \A y \in S : x <= y

RECURSIVE Concat(_)
Concat(ss) == IF ss = <<>> THEN <<>> ELSE Head(ss) \o Concat(Tail(ss))

TSuffix == <<"_", "t", ".", "j", "p", "g">>
JpgExt == <<".", "j", "p", "g">>
HostMarker == <<"m", "o", "j", "a", "l", "b", "u", "m", ".", "c", "o", "m">>
HttpsS == <<"h", "t", "t", "p", "s", ":", "/", "/", "s">>
DotHost == <<".">> \o HostMarker
Slash == <<"/">>
Underscore == <<"_">>
ExclusionId == "ClassifiedRecommendationsInner"

None == [none |-> TRUE]

(***************************************************************************)
(* Regular expressions of the program, as re.search computes them.         *)
(* The text never holds a newline, so $ is the end of the string.          *)
(***************************************************************************)
\* end of the longest run of digits starting at p (p - 1 when there is none)
DigitRunEnd(s, p) ==
    SetMax({q \in (p - 1)..Len(s) : \A k \in p..q : s[k] \in Digits})

\* end of the longest run of characters other than "/" starting at p
SegEnd(s, p) ==
    SetMax({q \in (p - 1)..Len(s) : \A k \in p..q : s[k] # "/"})

\* r'https://s(\d+)\.mojalbum\.com/([^/]+)/([^/]+)/([^/]+)_t\.jpg' matched at
\* position p.  \d+ and the first two [^/]+ are followed by a character they
\* cannot contain, so only their longest run can match; the last [^/]+ is
\* greedy and backtracks to the longest prefix of its run followed by _t.jpg.
PatternMatchAt(s, p) ==
    LET a == p + Len(HttpsS)
        b == DigitRunEnd(s, a)
        c == b + 1 + Len(DotHost) + 1
        d == SegEnd(s, c)
        e == d + 2
        f == SegEnd(s, e)
        g == f + 2
        h == SegEnd(s, g)
        ks == {k \in g..h : At(s, k + 1, TSuffix)}
    IN  IF /\ At(s, p, HttpsS)
           /\ b >= a
           /\ At(s, b + 1, DotHost \o Slash)
           /\ d >= c
           /\ At(s, d + 1, Slash)
           /\ f >= e
           /\ At(s, f + 1, Slash)
           /\ ks # {}
        THEN [g1 |-> Slice(s, a, b), g2 |-> Slice(s, c, d),
              g3 |-> Slice(s, e, f), g4 |-> Slice(s, g, SetMax(ks))]
        ELSE None

\* re.search(pattern_regex, src): the leftmost match, or None
PatternSearch(s) ==
    LET ps == {p \in 1..Len(s) : PatternMatchAt(s, p) # None}
    IN  IF ps = {} THEN None ELSE PatternMatchAt(s, SetMin(ps))

\* s.split('_', 1)[0]
SplitHead(s) ==
    LET us == {k \in 1..Len(s) : s[k] = "_"}
    IN  IF us = {} THEN s ELSE Slice(s, 1, SetMin(us) - 1)

\* s.rsplit('_', 1)[0]
RsplitHead(s) ==
    LET us == {k \in 1..Len(s) : s[k] = "_"}
    IN  IF us = {} THEN s ELSE Slice(s, 1, SetMax(us) - 1)

\* '_t.jpg' in src and 'mojalbum.com' in src
IsThumbnail(src) == Contains(src, TSuffix) /\ Contains(src, HostMarker)

\* detect_album_pattern(soup): the first thumbnail the regex matches
detect_album_pattern(sp) ==
    LET hits == {k \in 1..Len(sp) :
                    IsThumbnail(sp[k].src) /\ PatternSearch(sp[k].src) # None}
        m == PatternSearch(sp[SetMin(hits)].src)
    IN  IF hits = {} THEN None
        ELSE [server |-> m.g1, middle_part |-> RsplitHead(m.g2),
              album_path |-> m.g3]

\* construct_direct_url(photo_info, pattern)
construct_direct_url(photo_info, pattern) ==
    Concat(<<HttpsS, pattern.server, DotHost, Slash,
             pattern.middle_part, Underscore, photo_info.id, Slash,
             pattern.album_path, Slash,
             IF photo_info.has_description THEN photo_info.description
                                           ELSE photo_info.id,
             JpgExt>>)

\* range(15): how many ancestors the exclusion walk visits
WalkDepth == 15

\* the walk with range(16)
is_similar_ad_one_more(img) ==
    \E k \in 1..(WalkDepth + 1) :
        k <= Len(img.anc) /\ img.anc[k] = ExclusionId

\* the walk up from the image: some ancestor among the first WalkDepth that
\* exist carries the exclusion id
is_similar_ad(img) ==
    \E k \in 1..WalkDepth : k <= Len(img.anc) /\ img.anc[k] = ExclusionId

\* re.search(r'/(\d+)_t\.jpg$', src): group 1, or None
FilenameId(s) ==
    LET n == Len(s) - Len(TSuffix)
        ps == {p \in 1..(n - 1) :
                  s[p] = "/" /\ \A k \in (p + 1)..n : s[k] \in Digits}
    IN  IF EndsWith(s, TSuffix) /\ ps # {}
        THEN [g1 |-> Slice(s, SetMin(ps) + 1, n)]
        ELSE None

\* [^/]+_\d+ matches the whole of seg
IsMiddleWithId(seg) ==
    /\ NoSlash(seg)
    /\ \E u \in 2..(Len(seg) - 1) :
          seg[u] = "_" /\ IsDigits(Slice(seg, u + 1, Len(seg)))

\* re.search(r'/([^/]+_\d+)/[^/]+/([^/]+)_t\.jpg$', src): groups 1 and 2, or
\* None.  No group holds a "/", so the three "/" of the match are the last
\* three of the text.
UrlParts(s) ==
    LET n == Len(s) - Len(TSuffix)
        sl == {k \in 1..Len(s) : s[k] = "/"}
        r == SetMax(sl)
        q == SetMax(sl \ {r})
        p == SetMax(sl \ {r, q})
    IN  IF /\ EndsWith(s, TSuffix)
           /\ Cardinality(sl) >= 3
           /\ r < n
           /\ q + 1 < r
           /\ IsMiddleWithId(Slice(s, p + 1, q - 1))
        THEN [g1 |-> Slice(s, p + 1, q - 1), g2 |-> Slice(s, r + 1, n)]
        ELSE None

\* re.search(r'_(\d+)$', seg): group 1, or None
TrailingId(seg) ==
    LET us == {u \in 1..(Len(seg) - 1) :
                  seg[u] = "_" /\ IsDigits(Slice(seg, u + 1, Len(seg)))}
    IN  IF us = {} THEN None ELSE [g1 |-> Slice(seg, SetMin(us) + 1, Len(seg))]

\* one pass of the loop over the images of a page: what it appends
scan_image(img) ==
    IF ~IsThumbnail(img.src) \/ is_similar_ad(img) THEN <<>>
    ELSE IF FilenameId(img.src) # None
    THEN <<[id |-> FilenameId(img.src).g1, has_description |-> FALSE]>>
    ELSE IF UrlParts(img.src) # None /\ TrailingId(UrlParts(img.src).g1) # None
    THEN <<[id |-> TrailingId(UrlParts(img.src).g1).g1,
            has_description |-> TRUE,
            description |-> UrlParts(img.src).g2]>>
    ELSE <<>>

\* page_photo_ids after the loop over soup.find_all('img', src=True)
RECURSIVE page_photo_ids(_)
page_photo_ids(sp) ==
    IF sp = <<>> THEN <<>>
    ELSE scan_image(Head(sp)) \o page_photo_ids(Tail(sp))

\* f"{photo_id}.jpg"
FileName(photo_id) == photo_id \o JpgExt

(***************************************************************************)
(* The pages the server can hold.                                          *)
(***************************************************************************)
\* https://s<S>.mojalbum.com/<M>_<ID>/<A>/<F>_t.jpg
Thumb(S, M, ID, A, F) ==
    Concat(<<HttpsS, S, DotHost, Slash, M, Underscore, ID, Slash, A, Slash,
             F, TSuffix>>)

\* an ancestor chain of the given depth with the exclusion id at the levels
\* of marks; the last ancestor is the document object, which has no id
Chain(depth, marks) ==
    [k \in 1..depth |-> IF k \in marks /\ k < depth THEN ExclusionId ELSE ""]

S6 == <<"6">>
S12 == <<"1", "2">>
M100 == <<"1", "0", "0", "_", "2", "0", "0">>
Vacation == <<"v", "a", "c", "a", "t", "i", "o", "n">>
Id55 == <<"5", "5">>
Id56 == <<"5", "6">>
Id7 == <<"7">>
Id9 == <<"9">>
Id5 == <<"5">>
Cat == <<"c", "a", "t">>
LogoSrc == <<"h", "t", "t", "p", "s", ":", "/", "/", "m", "o", "j", "a", "l", "b", "u", "m", ".", "c", "o", "m", "/", "l", "o", "g", "o", ".", "p", "n", "g">>
PlainHttpSrc == <<"h", "t", "t", "p", ":", "/", "/", "m", "o", "j", "a", "l", "b", "u", "m", ".", "c", "o", "m", "/", "5", "_", "t", ".", "j", "p", "g">>
LetterA == <<"a">>
ABName == <<"a", "_", "b">>
TJpgName == <<"x", "_", "t", ".", "j", "p", "g">>
QueryV == <<"?", "v", "=", "1">>

Plain(ID, marks) ==
    [src |-> Thumb(S6, M100, ID, Vacation, ID), anc |-> Chain(4, marks)]

Described(ID, F, marks) ==
    [src |-> Thumb(S6, M100, ID, Vacation, F), anc |-> Chain(4, marks)]

Logo == [src |-> LogoSrc, anc |-> Chain(2, {})]

\* a thumbnail the page scanner reads (rule A) and the pattern regex does not
PlainHttp == [src |-> PlainHttpSrc, anc |-> Chain(3, {})]

PageNames == {"empty", "one", "two", "adsonly", "nopattern"}

PageBody(name) ==
    CASE name = "empty" -> <<Logo>>
      [] name = "one" -> <<Plain(Id9, {2}), Plain(Id55, {})>>
      [] name = "two" -> <<Described(Id56, Cat, {}), Logo, Plain(Id7, {})>>
      [] name = "adsonly" -> <<Logo, Plain(Id9, {3})>>
      [] name = "nopattern" -> <<PlainHttp>>

(***************************************************************************)
(* The run: download_all, with get_photo_ids inlined at pc = "crawl".      *)
(* The server and the network are the environment: a page fetch or a photo *)
(* fetch either succeeds or raises requests.RequestException.              *)
(***************************************************************************)
\* longest album the server holds
MaxAlbumPages == 2

\* photo fetches that may fail over the two runs
MaxNetFailures == 2

\* longest album in front of a tail that holds photos (the pagination that
\* never ends)
MaxLoopPrefix == 0

\* last page whose fetch may fail
MaxErrorPage == 3

\* max_pages = 20
max_pages == 20

\* files that may be in the destination before the first run
InitialFiles == {FileName(Id55), FileName(Id7)}

Albums == UNION {[1..n -> PageNames] : n \in 0..MaxAlbumPages}

\* what the server holds at page n: beyond the album's last page it answers
\* every page number with the page tail
ServerPage(n) == IF n <= Len(album) THEN album[n] ELSE tail

\* what the page scanner and the pattern detector give on each page the
\* server can hold, computed once
PageIds == [n \in PageNames |-> page_photo_ids(PageBody(n))]
PagePattern == [n \in PageNames |-> detect_album_pattern(PageBody(n))]

\* the loop over the images of the parsed page n: page_photo_ids
ScanPage(n) == PageIds[ServerPage(n)]

\* detect_album_pattern(soup) on the parsed page n
DetectOnPage(n) == PagePattern[ServerPage(n)]

\* while page <= max_pages + 1
LoopGuardOffByOne(p) == p <= max_pages + 1

\* while page <= max_pages
LoopGuard(p) == p <= max_pages

\* the check of the pattern left out
PatternNeverMissing(pattern) == FALSE

\* if not url_pattern
PatternMissing(pattern) == pattern = None

\* the check of the empty page left out
NeverNoPhotosOnPage(ids) == FALSE

\* if not page_photo_ids
NoPhotosOnPage(ids) == ids = <<>>

\* photo_ids = page_photo_ids + photo_ids
ExtendInFront(acc, ids) == ids \o acc

\* photo_ids.extend(page_photo_ids)
Extend(acc, ids) == acc \o ids

\* page += 1
NextPage(p) == p + 1

\* return [], None at a page fetch error
ReturnNothingAfterError(ids, pattern) == <<<<>>, None>>

\* break at a page fetch error, then return photo_ids, url_pattern
ReturnAfterError(ids, pattern) == <<ids, pattern>>

\* if not photo_ids or not url_pattern
NothingToDownload(ids, pattern) == ids = <<>> \/ pattern = None

\* the check of the existing file left out
FileNeverExists(fs, name) == FALSE

\* the destination after a failed fetch, had the file been opened before
\* the fetch
FilesAfterEarlyOpen(fs, name) == fs \cup {name}

\* the destination after download_photo caught the exception: open() comes
\* after raise_for_status()
FilesAfterFailedFetch(fs, name) == fs

\* filepath.exists()
FileExists(fs, name) == name \in fs

\* the failure not counted
CountFailedNot(n) == n

\* failed_downloads += 1
CountFailed(n) == n + 1

\* the url_pattern of the loop: detected on page 1, kept afterwards
PatternAt(p) == IF p = 1 THEN DetectOnPage(1) ELSE url_pattern

Init ==
    /\ album \in Albums
    /\ tail \in PageNames
    /\ tail # "empty" => Len(album) <= MaxLoopPrefix
    /\ files0 \in SUBSET InitialFiles
    /\ files = files0
    /\ pc = "crawl"
    /\ run = 1
    /\ page = 1
    /\ photo_ids = <<>>
    /\ url_pattern = None
    /\ i = 0
    /\ successful_downloads = 0
    /\ failed_downloads = 0
    /\ direct_url = <<>>
    /\ pages_fetched = <<>>
    /\ stop = "running"
    /\ outcomes = <<>>
    /\ net_failures = 0
    /\ first = None
    /\ given = None
    /\ soup = <<>>
    /\ out = None

ServerVars == <<album, tail, files0>>
PureVars == <<given, soup, out>>
CrawlVars == <<page, photo_ids, url_pattern, pages_fetched, stop>>
DownloadVars == <<files, i, successful_downloads, failed_downloads,
                  direct_url, outcomes, net_failures>>

\* the while condition is false: fall out of the loop and return
PageLimit ==
    /\ pc = "crawl"
    /\ ~LoopGuard(page)
    /\ stop' = "limit"
    /\ pc' = "crawled"
    /\ UNCHANGED <<page, photo_ids, url_pattern, pages_fetched>>
    /\ UNCHANGED <<ServerVars, PureVars, DownloadVars, run, first>>

\* session.get / raise_for_status raises: break
FetchPageError ==
    /\ pc = "crawl"
    /\ LoopGuard(page)
    /\ page <= MaxErrorPage
    /\ pages_fetched' = Append(pages_fetched, page)
    /\ photo_ids' = ReturnAfterError(photo_ids, url_pattern)[1]
    /\ url_pattern' = ReturnAfterError(photo_ids, url_pattern)[2]
    /\ stop' = "error"
    /\ pc' = "crawled"
    /\ UNCHANGED page
    /\ UNCHANGED <<ServerVars, PureVars, DownloadVars, run, first>>

\* page 1 fetched, no pattern detected: return [], None
PatternNotFound ==
    /\ pc = "crawl"
    /\ LoopGuard(page)
    /\ page = 1
    /\ PatternMissing(PatternAt(page))
    /\ pages_fetched' = Append(pages_fetched, page)
    /\ photo_ids' = <<>>
    /\ url_pattern' = None
    /\ stop' = "nopattern"
    /\ pc' = "crawled"
    /\ UNCHANGED page
    /\ UNCHANGED <<ServerVars, PureVars, DownloadVars, run, first>>

\* the page is fetched and scanned and holds no photo: break
PageWithoutPhotos ==
    /\ pc = "crawl"
    /\ LoopGuard(page)
    /\ ~(page = 1 /\ PatternMissing(PatternAt(page)))
    /\ NoPhotosOnPage(ScanPage(page))
    /\ pages_fetched' = Append(pages_fetched, page)
    /\ url_pattern' = PatternAt(page)
    /\ stop' = "empty"
    /\ pc' = "crawled"
    /\ UNCHANGED <<page, photo_ids>>
    /\ UNCHANGED <<ServerVars, PureVars, DownloadVars, run, first>>

\* the page is fetched and scanned and holds photos: extend, next page
PageScanned ==
    /\ pc = "crawl"
    /\ LoopGuard(page)
    /\ ~(page = 1 /\ PatternMissing(PatternAt(page)))
    /\ ~NoPhotosOnPage(ScanPage(page))
    /\ pages_fetched' = Append(pages_fetched, page)
    /\ url_pattern' = PatternAt(page)
    /\ photo_ids' = Extend(photo_ids, ScanPage(page))
    /\ page' = NextPage(page)
    /\ UNCHANGED <<stop, pc>>
    /\ UNCHANGED <<ServerVars, PureVars, DownloadVars, run, first>>

\* download_all: "No photos found!", return
NoPhotosFound ==
    /\ pc = "crawled"
    /\ NothingToDownload(photo_ids, url_pattern)
    /\ pc' = "done"
    /\ UNCHANGED <<ServerVars, PureVars, CrawlVars, DownloadVars, run, first>>

\* download_all: the tally is set to zero and the loop starts
StartDownloads ==
    /\ pc = "crawled"
    /\ ~NothingToDownload(photo_ids, url_pattern)
    /\ successful_downloads' = 0
    /\ failed_downloads' = 0
    /\ i' = 0
    /\ pc' = "download"
    /\ UNCHANGED <<files, direct_url, outcomes, net_failures>>
    /\ UNCHANGED <<ServerVars, PureVars, CrawlVars, run, first>>

\* the file of the next descriptor exists: continue
SkipExisting ==
    /\ pc = "download"
    /\ i < Len(photo_ids)
    /\ FileExists(files, FileName(photo_ids[i + 1].id))
    /\ i' = i + 1
    /\ outcomes' = Append(outcomes,
                          [id |-> photo_ids[i + 1].id, what |-> "skipped"])
    /\ UNCHANGED <<files, successful_downloads, failed_downloads, direct_url,
                   net_failures, pc>>
    /\ UNCHANGED <<ServerVars, PureVars, CrawlVars, run, first>>

\* download_photo returns True: the file is written
DownloadSucceeds ==
    /\ pc = "download"
    /\ i < Len(photo_ids)
    /\ ~FileExists(files, FileName(photo_ids[i + 1].id))
    /\ direct_url' = construct_direct_url(photo_ids[i + 1], url_pattern)
    /\ files' = files \cup {FileName(photo_ids[i + 1].id)}
    /\ successful_downloads' = successful_downloads + 1
    /\ i' = i + 1
    /\ outcomes' = Append(outcomes,
                          [id |-> photo_ids[i + 1].id, what |-> "successful"])
    /\ UNCHANGED <<failed_downloads, net_failures, pc>>
    /\ UNCHANGED <<ServerVars, PureVars, CrawlVars, run, first>>

\* download_photo returns False: nothing is written
DownloadFails ==
    /\ pc = "download"
    /\ i < Len(photo_ids)
    /\ ~FileExists(files, FileName(photo_ids[i + 1].id))
    /\ net_failures < MaxNetFailures
    /\ net_failures' = net_failures + 1
    /\ direct_url' = construct_direct_url(photo_ids[i + 1], url_pattern)
    /\ failed_downloads' = CountFailed(failed_downloads)
    /\ i' = i + 1
    /\ outcomes' = Append(outcomes,
                          [id |-> photo_ids[i + 1].id, what |-> "failed"])
    /\ files' = FilesAfterFailedFetch(files, FileName(photo_ids[i + 1].id))
    /\ UNCHANGED <<successful_downloads, pc>>
    /\ UNCHANGED <<ServerVars, PureVars, CrawlVars, run, first>>

\* the loop is over: the summary is printed
Summary ==
    /\ pc = "download"
    /\ i = Len(photo_ids)
    /\ pc' = "done"
    /\ UNCHANGED <<ServerVars, PureVars, CrawlVars, DownloadVars, run, first>>

\* the tool is run again on the same album and the same destination
RunAgain ==
    /\ pc = "done"
    /\ run = 1
    /\ run' = 2
    /\ first' = [photo_ids |-> photo_ids, url_pattern |-> url_pattern,
                 files |-> files, successful |-> successful_downloads,
                 failed |-> failed_downloads, outcomes |-> outcomes]
    /\ pc' = "crawl"
    /\ page' = 1
    /\ photo_ids' = <<>>
    /\ url_pattern' = None
    /\ pages_fetched' = <<>>
    /\ stop' = "running"
    /\ i' = 0
    /\ successful_downloads' = 0
    /\ failed_downloads' = 0
    /\ direct_url' = <<>>
    /\ outcomes' = <<>>
    /\ UNCHANGED <<files, net_failures>>
    /\ UNCHANGED <<ServerVars, PureVars>>

Next ==
    \/ PageLimit
    \/ FetchPageError
    \/ PatternNotFound
    \/ PageWithoutPhotos
    \/ PageScanned
    \/ NoPhotosFound
    \/ StartDownloads
    \/ SkipExisting
    \/ DownloadSucceeds
    \/ DownloadFails
    \/ Summary
    \/ RunAgain

Spec == Init /\ [][Next]_vars

\* the program is sequential code that keeps running: a step that can be
\* taken is taken
FairSpec == Spec /\ WF_vars(Next)

(***************************************************************************)
(* Properties of the run                                                   *)
(***************************************************************************)
\* the descriptors of pages 1..n, page after page
RECURSIVE PagesConcat(_)
PagesConcat(n) ==
    IF n = 0 THEN <<>> ELSE PagesConcat(n - 1) \o PageIds[ServerPage(n)]

Count(what) ==
    Cardinality({k \in 1..Len(outcomes) : outcomes[k].what = what})

\* the files of the destination when the current run started
FilesAtStart == IF run = 1 THEN files0 ELSE first.files

\* the download loop ran or is running
Downloading ==
    pc = "download" \/ (pc = "done" /\ ~NothingToDownload(photo_ids, url_pattern))

\* page 1 was fetched and its fetch failed
FirstFetchFailed == stop = "error" /\ pages_fetched = <<1>>

\* page 1 was fetched and holds no thumbnail the pattern regex matches
FirstPageWithoutPattern ==
    /\ pages_fetched # <<>>
    /\ ~FirstFetchFailed
    /\ PagePattern[ServerPage(1)] = None

\* the crawl has fetched at most 20 pages, one per iteration
WithinCeiling ==
    /\ Len(pages_fetched) <= 20
    /\ pc = "crawl" => page = Len(pages_fetched) + 1 /\ stop = "running"
    /\ pc # "crawl" => stop # "running"

\* C1: the crawl loop never fetches more than 20 pages, whatever the pages
\* hold, and a crawl that has started returns.
C1_PageCeiling == []WithinCeiling /\ ((pc = "crawl") ~> (pc = "crawled"))

\* C1 witness: every page held photos and the loop ended at the ceiling
C1_Witness ==
    /\ pc = "crawled"
    /\ stop = "limit"
    /\ Len(pages_fetched) = 20
    /\ \A n \in 1..20 : PageIds[ServerPage(n)] # <<>>

\* the second run has ended, with the descriptor list and the pattern of the
\* first run
SecondRunSameList ==
    /\ run = 2
    /\ pc = "done"
    /\ photo_ids = first.photo_ids
    /\ url_pattern = first.url_pattern

\* C2 as stated: after a second run against the same descriptor list and
\* destination the files are those left by the first run, and the second run
\* has no successful download and no failure.
C2_IdempotentReRun ==
    SecondRunSameList =>
        /\ files = first.files
        /\ successful_downloads = 0
        /\ failed_downloads = 0

\* C2 amended: the second run skips every descriptor whose file the first run
\* left in the destination; if no fetch of the first run failed, it skips
\* them all, has no successful download and no failure, and leaves the files
\* as they were.
C2_IdempotentAfterCleanRun ==
    SecondRunSameList =>
        /\ \A k \in 1..Len(outcomes) :
              FileName(outcomes[k].id) \in first.files
                  => outcomes[k].what = "skipped"
        /\ first.failed = 0 =>
              /\ files = first.files
              /\ successful_downloads = 0
              /\ failed_downloads = 0
              /\ Len(outcomes) = Len(first.outcomes)
              /\ \A k \in 1..Len(outcomes) : outcomes[k].what = "skipped"

\* C2 witness: a first run that downloaded photos without failure, and a
\* second run that skipped them all
C2_Witness ==
    /\ SecondRunSameList
    /\ first.failed = 0
    /\ first.successful >= 2
    /\ Len(outcomes) = Len(photo_ids)
    /\ Count("skipped") = Len(photo_ids)

\* C3: when the fetch of page 1 failed, or page 1 holds no pattern, the crawl
\* gives the empty list and no pattern, and the run ends without a photo
\* fetch, a reconstructed URL or a written file.
C3_FatalZeroDownloads ==
    (FirstFetchFailed \/ FirstPageWithoutPattern) =>
        /\ pc \in {"crawled", "done"}
        /\ photo_ids = <<>>
        /\ url_pattern = None
        /\ outcomes = <<>>
        /\ direct_url = <<>>
        /\ files = FilesAtStart

\* C3 witness: page 1 holds a thumbnail the scanner reads, no pattern is
\* found, and the run has ended
C3_Witness ==
    /\ pc = "done"
    /\ stop = "nopattern"
    /\ PageIds[ServerPage(1)] # <<>>

\* C4: a failed fetch of page N > 1 ends the crawl with the descriptors of
\* pages 1..N-1 and the pattern of page 1, no page having been fetched twice,
\* and the download loop then processes those descriptors.
C4_ErrorKeepsGathered ==
    LET N == Len(pages_fetched)
    IN  (stop = "error" /\ N > 1) =>
            /\ pages_fetched = [n \in 1..N |-> n]
            /\ photo_ids = PagesConcat(N - 1)
            /\ photo_ids # <<>>
            /\ url_pattern = PagePattern[ServerPage(1)]
            /\ pc \in {"crawled", "download", "done"}
            /\ pc = "done" =>
                  /\ Len(outcomes) = Len(photo_ids)
                  /\ \A k \in 1..Len(outcomes) : outcomes[k].id = photo_ids[k].id

\* C4 witness: the fetch of page 3 failed and the photos of two different
\* pages were processed
C4_Witness ==
    /\ stop = "error"
    /\ pages_fetched = <<1, 2, 3>>
    /\ ServerPage(1) # ServerPage(2)
    /\ pc = "done"
    /\ Len(outcomes) >= 3

\* C5: the download loop gives each descriptor one outcome; the tally counts
\* the successful and the failed ones, and with the skipped ones they add up
\* to the descriptors processed, which at the end are all of the list.
C5_TallyAddsUp ==
    Downloading =>
        /\ Len(outcomes) = i
        /\ i <= Len(photo_ids)
        /\ \A k \in 1..i : outcomes[k].what \in {"skipped", "successful", "failed"}
        /\ successful_downloads = Count("successful")
        /\ failed_downloads = Count("failed")
        /\ successful_downloads + failed_downloads + Count("skipped") = i
        /\ pc = "done" => i = Len(photo_ids)

\* C5 witness: a run that ended after a failure, a success and a skip
C5_Witness ==
    /\ pc = "done"
    /\ failed_downloads >= 1
    /\ successful_downloads >= 1
    /\ Count("skipped") >= 1
    /\ outcomes[1].what = "failed"

\* C6: the descriptor list is the concatenation of the pages' descriptors in
\* page order, the download loop takes the descriptors in the order of the
\* list, and the last URL fetched is that of the last descriptor not skipped.
C6_OrderPreserved ==
    /\ photo_ids = PagesConcat(page - 1)
    /\ \A k \in 1..Len(outcomes) : outcomes[k].id = photo_ids[k].id
    /\ (Downloading /\ i > 0 /\ outcomes[i].what # "skipped") =>
          direct_url = construct_direct_url(photo_ids[i], url_pattern)

\* C6 witness: the photos of two different pages, all fetched, in page order
C6_Witness ==
    /\ pc = "done"
    /\ page = 3
    /\ Len(photo_ids) = 3
    /\ photo_ids[1].id # photo_ids[2].id
    /\ photo_ids[2].id # photo_ids[3].id
    /\ photo_ids[1].id # photo_ids[3].id
    /\ Len(outcomes) = 3
    /\ Count("skipped") = 0

\* C9: the pages fetched are 1, 2, 3, ... in that order; every page before
\* the last one fetched was fetched successfully and held a descriptor; when
\* the loop stops at a page without descriptors, the descriptors of the
\* earlier pages and the pattern are returned.
C9_PagesInOrder ==
    LET N == Len(pages_fetched)
    IN  /\ pages_fetched = [n \in 1..N |-> n]
        /\ \A n \in 1..(N - 1) : PageIds[ServerPage(n)] # <<>>
        /\ N > 1 => PagePattern[ServerPage(1)] # None
        /\ stop = "empty" =>
              /\ pc # "crawl"
              /\ PageIds[ServerPage(N)] = <<>>
              /\ photo_ids = PagesConcat(N - 1)
              /\ url_pattern = PagePattern[ServerPage(1)]
              /\ url_pattern # None

\* C9 witness: pages 1 and 2 held photos, page 3 held none, and the run
\* went on to download
C9_Witness ==
    /\ stop = "empty"
    /\ pages_fetched = <<1, 2, 3>>
    /\ pc = "done"
    /\ Len(outcomes) = Len(photo_ids)

\* the ids of the first k descriptors whose fetch succeeded
Succeeded(k) ==
    {outcomes[j].id : j \in {j \in 1..k : outcomes[j].what = "successful"}}

\* C10: the destination holds the files it held when the run started and one
\* file per id whose fetch succeeded; a descriptor is skipped exactly when
\* its file was there when its turn came, so no existing file is fetched or
\* written again, and a failed fetch leaves no file.
C10_FilesOnlyBySuccess ==
    /\ files = FilesAtStart \cup {FileName(id) : id \in Succeeded(Len(outcomes))}
    /\ \A k \in 1..Len(outcomes) :
          outcomes[k].what = "skipped"
              <=> FileName(outcomes[k].id) \in
                      FilesAtStart \cup {FileName(id) : id \in Succeeded(k - 1)}

\* C10 witness: a repeated id whose first fetch failed, whose second fetch
\* succeeded and whose later occurrences were skipped
C10_Witness ==
    /\ pc = "done"
    /\ Len(outcomes) >= 3
    /\ outcomes[1].what = "failed"
    /\ outcomes[2].what = "successful"
    /\ outcomes[3].what = "skipped"
    /\ outcomes[1].id = outcomes[2].id
    /\ outcomes[2].id = outcomes[3].id

(***************************************************************************)
(* The page scanner on one page: a thumbnail under an ancestor chain of    *)
(* any depth, the exclusion id at up to two levels of it, alone on the     *)
(* page or beside another thumbnail.                                       *)
(***************************************************************************)
\* deepest ancestor chain
MaxDepth == 18

\* the idle values of the variables of the run
RunIdle ==
    /\ album = <<>>
    /\ tail = "empty"
    /\ files0 = {}
    /\ files = {}
    /\ pc = "pure"
    /\ run = 1
    /\ page = 1
    /\ photo_ids = <<>>
    /\ url_pattern = None
    /\ i = 0
    /\ successful_downloads = 0
    /\ failed_downloads = 0
    /\ direct_url = <<>>
    /\ pages_fetched = <<>>
    /\ stop = "running"
    /\ outcomes = <<>>
    /\ net_failures = 0
    /\ first = None

RunVars == <<ServerVars, CrawlVars, DownloadVars, pc, run, first>>

Chains ==
    {[depth |-> d, marks |-> m] :
        d \in 1..MaxDepth,
        m \in {m \in SUBSET (1..(MaxDepth - 1)) : Cardinality(m) <= 2}}

\* the source of the thumbnail under test, by kind
KindSrc(kind) ==
    CASE kind = "plain" -> Thumb(S6, M100, Id55, Vacation, Id55)
      [] kind = "described" -> Thumb(S6, M100, Id56, Vacation, Cat)
      [] kind = "neither" -> Thumb(S6, M100, Id55, Vacation, Id55) \o QueryV
      [] kind = "other" -> LogoSrc

\* the other thumbnail of the page
Other == Plain(Id7, {})

ScanInputs ==
    {[kind |-> k, depth |-> c.depth, marks |-> c.marks, place |-> pl] :
        k \in {"plain", "described", "neither", "other"},
        c \in {c \in Chains : \A m \in c.marks : m < c.depth},
        pl \in {"alone", "before", "after"}}

ScanSoup(g) ==
    LET img == [src |-> KindSrc(g.kind), anc |-> Chain(g.depth, g.marks)]
    IN  CASE g.place = "alone" -> <<img>>
          [] g.place = "before" -> <<img, Other>>
          [] g.place = "after" -> <<Other, img>>

InitScan ==
    /\ RunIdle
    /\ given \in ScanInputs
    /\ soup = ScanSoup(given)
    /\ out = None

\* the loop over the images of the page
ScanSoupPage ==
    /\ pc = "pure"
    /\ out = None
    /\ out' = [ids |-> page_photo_ids(soup)]
    /\ UNCHANGED <<given, soup, RunVars>>

NextScan == ScanSoupPage

SpecScan == InitScan /\ [][NextScan]_vars

\* what the thumbnail under test contributes when it is not excluded
OwnDescriptor(g) ==
    CASE g.kind = "plain" -> <<[id |-> Id55, has_description |-> FALSE]>>
      [] g.kind = "described" ->
            <<[id |-> Id56, has_description |-> TRUE, description |-> Cat]>>
      [] OTHER -> <<>>

OtherDescriptor == <<[id |-> Id7, has_description |-> FALSE]>>

\* the page's descriptors when the thumbnail under test contributes own
Placed(g, own) ==
    CASE g.place = "alone" -> own
      [] g.place = "before" -> own \o OtherDescriptor
      [] g.place = "after" -> OtherDescriptor \o own

\* C7: a thumbnail with the exclusion id on an ancestor at level 1 to 15 is
\* absent from the scanner's output; with the exclusion id only at level 16
\* or above it is scanned as if no ancestor carried it.
C7_ExclusionZone ==
    out # None =>
        IF \E m \in given.marks : m <= 15
        THEN out.ids = Placed(given, <<>>)
        ELSE out.ids = Placed(given, OwnDescriptor(given))

\* C7 witness: the exclusion id at level 16 only, and the thumbnail is in the
\* output
C7_Witness ==
    /\ out # None
    /\ given.kind = "plain"
    /\ given.marks = {16}
    /\ given.place = "alone"
    /\ out.ids = <<[id |-> Id55, has_description |-> FALSE]>>

(***************************************************************************)
(* The pattern detector and the URL reconstructor on a first page whose    *)
(* first thumbnail matched by the pattern regex is                         *)
(*   https://s<S>.mojalbum.com/<M>_<ID>/<A>/<ID>_t.jpg                     *)
(***************************************************************************)
Servers == {S6, S12}
Middles == {<<>>, LetterA, M100}
PhotoIds == {Id55, Id7}
AlbumPaths == {LetterA, Vacation, TJpgName}
Descriptions == {Cat, ABName}

\* what may stand before the thumbnail: nothing, an image that is no
\* thumbnail, thumbnails the pattern regex does not match (http, an empty
\* album path)
Leads == {"none", "logo", "http", "emptypath"}

PatternInputs ==
    [S : Servers, M : Middles, ID : PhotoIds, A : AlbumPaths,
     D : Descriptions, lead : Leads, ad : BOOLEAN, follow : BOOLEAN]

\* the thumbnail the pattern is read from
GivenSrc(g) == Thumb(g.S, g.M, g.ID, g.A, g.ID)

PatternSoup(g) ==
    LET lead == CASE g.lead = "none" -> <<>>
                  [] g.lead = "logo" -> <<Logo>>
                  [] g.lead = "http" -> <<PlainHttp>>
                  [] g.lead = "emptypath" ->
                        <<[src |-> Thumb(S12, LetterA, Id9, <<>>, Id9),
                           anc |-> Chain(2, {})]>>
        img == [src |-> GivenSrc(g),
                anc |-> Chain(3, IF g.ad THEN {1} ELSE {})]
        follow == IF g.follow
                  THEN <<[src |-> Thumb(Id9, Cat, Id56, Cat, Id56),
                          anc |-> Chain(2, {})]>>
                  ELSE <<>>
    IN  lead \o <<img>> \o follow

InitPattern ==
    /\ RunIdle
    /\ given \in PatternInputs
    /\ soup = PatternSoup(given)
    /\ out = [stage |-> "page"]

\* detect_album_pattern(soup)
DetectPattern ==
    /\ pc = "pure"
    /\ out.stage = "page"
    /\ out' = [stage |-> "pattern", pattern |-> detect_album_pattern(soup)]
    /\ UNCHANGED <<given, soup, RunVars>>

\* construct_direct_url of the descriptor without description
ReconstructPlain ==
    /\ pc = "pure"
    /\ out.stage = "pattern"
    /\ out.pattern # None
    /\ out' = [stage |-> "plain", pattern |-> out.pattern,
               url |-> construct_direct_url(
                          [id |-> given.ID, has_description |-> FALSE],
                          out.pattern)]
    /\ UNCHANGED <<given, soup, RunVars>>

\* construct_direct_url of the descriptor with a description
ReconstructDescribed ==
    /\ pc = "pure"
    /\ out.stage = "pattern"
    /\ out.pattern # None
    /\ out' = [stage |-> "described", pattern |-> out.pattern,
               url |-> construct_direct_url(
                          [id |-> given.ID, has_description |-> TRUE,
                           description |-> given.D],
                          out.pattern)]
    /\ UNCHANGED <<given, soup, RunVars>>

NextPattern == DetectPattern \/ ReconstructPlain \/ ReconstructDescribed

SpecPattern == InitPattern /\ [][NextPattern]_vars

\* https://s<S>.mojalbum.com/<M>_<ID>/<A>/<F>.jpg
DirectUrl(g, F) ==
    HttpsS \o g.S \o DotHost \o Slash \o g.M \o Underscore \o g.ID \o Slash
        \o g.A \o Slash \o F \o JpgExt

\* C8: the detector yields server S, middle part M and album path A; the
\* descriptor without description reconstructs to the thumbnail source with
\* the _t suffix removed, and with a description the description is the
\* file name.
C8_PatternRoundTrip ==
    /\ out.stage # "page" =>
          out.pattern = [server |-> given.S, middle_part |-> given.M,
                         album_path |-> given.A]
    /\ out.stage = "plain" =>
          /\ out.url = DirectUrl(given, given.ID)
          /\ out.url = Slice(GivenSrc(given), 1,
                             Len(GivenSrc(given)) - Len(TSuffix)) \o JpgExt
    /\ out.stage = "described" => out.url = DirectUrl(given, given.D)

\* C8 witness: the example of the specification, reconstructed
C8_Witness ==
    /\ out.stage = "plain"
    /\ given.S = S6
    /\ given.M = M100
    /\ given.ID = Id55
    /\ given.A = Vacation
    /\ out.pattern = [server |-> S6, middle_part |-> M100,
                      album_path |-> Vacation]
    /\ out.url = <<"h", "t", "t", "p", "s", ":", "/", "/", "s", "6", ".", "m", "o", "j", "a", "l", "b", "u", "m", ".", "c", "o", "m", "/",
                 "1", "0", "0", "_", "2", "0", "0", "_", "5", "5", "/",
                 "v", "a", "c", "a", "t", "i", "o", "n", "/", "5", "5", ".", "j", "p", "g">>

====
